---- MODULE Spec2Model ----
(***************************************************************************)
(* A model of datasets/qm9.py: QM9Dataset (process, dataset_to_pytorch,    *)
(* apply_split, __getitem__), collate_fn and the padding transform built   *)
(* by QM9GraphTransform.                                                   *)
(*                                                                         *)
(* Arrays are sequences; an array index of the code is 0-based, so the     *)
(* element the code calls a[k] is a[k+1] here.  Atom ids, graph ordinals   *)
(* and stream positions keep their 0-based values.  Floating-point cells   *)
(* of the target table are symbolic: [raw |-> <<row, column>>, factor |->  *)
(* name of the conversion factor].                                         *)
(***************************************************************************)
EXTENDS Integers, Sequences, FiniteSets, TLC

VARIABLES
    pc,               \* position in the life of the dataset / of a batch
    suppl,            \* the raw record stream (SDMolSupplier), Nothing = unparsable
    skip_indices,     \* read_uncharacterized_indices(): excluded 0-based positions
    data,             \* self.data (the corpus)
    err,              \* the exception that ended the last operation, or NoError
    target_index,     \* self.target_index (NoTarget or a 0-based column)
    item,             \* what the last __getitem__ returned
    probe,            \* apply_split: a position of the permutation that is followed
    blocks,           \* apply_split: train_idx, val_idx, test_idx as seen at probe
    max_batch_nodes,  \* QM9GraphTransform's closure
    max_batch_edges,
    items,            \* the list handed to collate_fn
    batch,            \* what collate_fn returned
    graph             \* what _qm9_transform returned

vars == <<pc, suppl, skip_indices, data, err, target_index, item, probe, blocks,
          max_batch_nodes, max_batch_edges, items, batch, graph>>

----------------------------------------------------------------------------
(* Bounds of the model *)

MaxAtoms == 3
MaxBonds == 2
MaxStream == 3
MaxBatch == 2
MaxCap == 8

----------------------------------------------------------------------------
(* Generic helpers *)

\* None as a value of self.target_index
NoTarget == -1

\* None where a record is expected (an unparsable record, nothing returned yet)
Nothing == [none |-> TRUE]
NoError == [kind |-> "None", at |-> -1]

Min(a, b) == IF a <= b THEN a ELSE b
Max(a, b) == IF a >= b THEN a ELSE b

RECURSIVE SeqSum(_)
SeqSum(s) == IF s = <<>> THEN 0 ELSE Head(s) + SeqSum(Tail(s))

RECURSIVE SeqMax(_)
SeqMax(s) == IF Len(s) = 1 THEN s[1] ELSE Max(Head(s), SeqMax(Tail(s)))

RECURSIVE Flatten(_)
Flatten(ss) == IF ss = <<>> THEN <<>> ELSE Head(ss) \o Flatten(Tail(ss))

\* the sequence f, its elements evaluated once
AsTuple(f) == f \o <<>>

Repeat(v, n) == AsTuple([k \in 1..n |-> v])

SeqsUpTo(S, n) == UNION {[1..k -> S] : k \in 0..n}

----------------------------------------------------------------------------
(* Class constants of QM9Dataset *)

TOTAL_SIZE == 130831
TRAIN_SIZE == 110000
VAL_SIZE == 10000
TEST_SIZE == 10831

TARGETS == <<"mu", "alpha", "homo", "lumo", "gap", "r2", "zpve", "U0", "U", "H",
             "G", "Cv", "U0_atom", "U_atom", "H_atom", "G_atom", "A", "B", "C">>

\* TARGETS.index(target): the 0-based position of the first occurrence
TargetIndexOf(target) ==
    IF target = "None" THEN NoTarget
    ELSE (CHOOSE k \in 1..Len(TARGETS) :
              TARGETS[k] = target /\ \A m \in 1..(k-1) : TARGETS[m] # target) - 1

----------------------------------------------------------------------------
(* process: the target table *)

conversion_factors ==
    <<"1", "1", "HAR2EV", "HAR2EV", "HAR2EV", "1", "HAR2EV", "HAR2EV", "HAR2EV",
      "HAR2EV", "HAR2EV", "1", "KCALMOL2EV", "KCALMOL2EV", "KCALMOL2EV",
      "KCALMOL2EV", "1", "1", "1">>

\* raw_targets[i, :] = df.iloc[i, 1:]: 19 cells, symbolic
raw_targets(i) == AsTuple([c \in 1..Len(TARGETS) |-> <<i, c - 1>>])

\* np.concatenate([raw_targets[:, 3:], raw_targets[:, :3]], axis=1), one row
rearranged_targets(i) ==
    SubSeq(raw_targets(i), 4, Len(TARGETS)) \o SubSeq(raw_targets(i), 1, 3)

\* targets = rearranged_targets * conversion_factors, one row
targets(i) ==
    AsTuple([k \in 1..Len(TARGETS) |->
        [raw |-> rearranged_targets(i)[k], factor |-> conversion_factors[k]]])

----------------------------------------------------------------------------
(* process: one record *)

atom_types == (1 :> 0) @@ (6 :> 1) @@ (7 :> 2) @@ (8 :> 3) @@ (9 :> 4)

\* (mutation) the column taken as a 1-based position
AtomRowOneBased(z) == AsTuple([k \in 1..5 |-> (k - 1 = atom_types[z] + 1)])

\* x = np.zeros((num_atoms, 5), dtype=bool); x[j, atom_types[Z]] = 1
AtomRow(z) == AsTuple([k \in 1..5 |-> (k - 1 = atom_types[z])])

\* the if/elif chain over bond.GetBondType()
BondTypeRow(t) ==
    IF t = "SINGLE" THEN <<1, 0, 0, 0>>
    ELSE IF t = "DOUBLE" THEN <<0, 1, 0, 0>>
    ELSE IF t = "TRIPLE" THEN <<0, 0, 1, 0>>
    ELSE IF t = "AROMATIC" THEN <<0, 0, 0, 1>>
    ELSE <<0, 0, 0, 0>>

\* edge_indices after the loop over mol.GetBonds(): (start, end), (end, start) per bond
EdgeIndices(bonds) ==
    AsTuple([k \in 1..(2 * Len(bonds)) |->
        LET b == bonds[(k + 1) \div 2]
        IN  IF k % 2 = 1 THEN <<b.begin, b.end>> ELSE <<b.end, b.begin>>])

\* edge_attrs after the loop: edge_attrs += [bond_type, bond_type]; dtype=bool
EdgeAttrs(bonds) ==
    AsTuple([k \in 1..(2 * Len(bonds)) |->
        LET row == BondTypeRow(bonds[(k + 1) \div 2].type)
        IN  AsTuple([c \in 1..4 |-> row[c] = 1])])

\* np.array(edge_indices, dtype=int).T as <<row 0, row 1>>
Transpose(edge_indices) ==
    << AsTuple([k \in 1..Len(edge_indices) |-> edge_indices[k][1]]),
       AsTuple([k \in 1..Len(edge_indices) |-> edge_indices[k][2]]) >>

\* np.lexsort((k2, k1)): the stable argsort by k1, then k2 (0-based results)
LexsortBefore(k2, k1, a, b) ==
    \/ k1[a] < k1[b]
    \/ k1[a] = k1[b] /\ k2[a] < k2[b]
    \/ k1[a] = k1[b] /\ k2[a] = k2[b] /\ a < b

Lexsort(k2, k1) ==
    AsTuple([r \in 1..Len(k1) |->
        (CHOOSE a \in 1..Len(k1) :
            Cardinality({b \in 1..Len(k1) : LexsortBefore(k2, k1, b, a)}) = r - 1) - 1])

\* a[sort_indices] / a[:, sort_indices]
Take(a, sort_indices) ==
    AsTuple([r \in 1..Len(sort_indices) |-> a[sort_indices[r] + 1]])

\* The body of the loop of process for an accepted record mol at position i
ProcessMol(mol, i) ==
    LET num_atoms == Len(mol.atoms)
        edge_index == Transpose(EdgeIndices(mol.bonds))
        edge_attr == EdgeAttrs(mol.bonds)
        sort_indices == Lexsort(edge_index[1], edge_index[2])
    IN  IF \E j \in 1..num_atoms : mol.atoms[j] \notin DOMAIN atom_types
        THEN [ok |-> FALSE, kind |-> "KeyError"]
        ELSE IF mol.bonds = <<>>
        \* np.array([]).T is 1-dimensional: edge_index[0, :] has too many indices
        THEN [ok |-> FALSE, kind |-> "IndexError"]
        ELSE [ok |-> TRUE,
              item |-> [pos |-> mol.pos,
                        x |-> AsTuple([j \in 1..num_atoms |-> AtomRow(mol.atoms[j])]),
                        y |-> targets(i),
                        edge_index |-> << Take(edge_index[1], sort_indices),
                                          Take(edge_index[2], sort_indices) >>,
                        edge_attr |-> Take(edge_attr, sort_indices),
                        name |-> mol.name,
                        smiles |-> <<"smiles", mol.atoms, mol.bonds>>,
                        idx |-> i]]

\* (mutation) the exclusion file's 1-based numbers used unadjusted
SkippedOneBased(stream, skip, i) == stream[i + 1] = Nothing \/ (i + 1) \in skip

\* Whether record i of the stream is skipped
Skipped(stream, skip, i) == stream[i + 1] = Nothing \/ i \in skip

\* process(): the loop from position i on, data_list being what is collected so far
RECURSIVE ProcessFrom(_, _, _, _)
ProcessFrom(stream, skip, i, data_list) ==
    IF i >= Len(stream) THEN [data |-> data_list, err |-> NoError]
    ELSE IF Skipped(stream, skip, i) THEN ProcessFrom(stream, skip, i + 1, data_list)
    ELSE LET r == ProcessMol(stream[i + 1], i)
         IN  IF r.ok
             THEN ProcessFrom(stream, skip, i + 1, Append(data_list, r.item))
             ELSE [data |-> data_list, err |-> [kind |-> r.kind, at |-> i]]

----------------------------------------------------------------------------
(* apply_split *)

\* perm = random_state.permutation(np.arange(TOTAL_SIZE)) is followed at one
\* position p: as perm is a permutation, the index perm[p] occurs at no other.
\* perm[lo:hi], as the positions it takes and what it says of position p
PermSlice(lo, hi, p) ==
    LET from == Min(lo, TOTAL_SIZE)
        to == Min(hi, TOTAL_SIZE)
    IN  [size |-> Max(0, to - from), has |-> (from <= p /\ p < to)]

\* perm[:self.TRAIN_SIZE]
TrainIdx(p) == PermSlice(0, TRAIN_SIZE, p)

\* perm[self.TRAIN_SIZE:self.TRAIN_SIZE + self.VAL_SIZE]
ValIdx(p) == PermSlice(TRAIN_SIZE, TRAIN_SIZE + VAL_SIZE, p)

\* (mutation) the test block cut one position late
TestIdxLate(p) == PermSlice(TRAIN_SIZE + VAL_SIZE + 1, TOTAL_SIZE, p)

\* perm[self.TRAIN_SIZE + self.VAL_SIZE:]
TestIdx(p) == PermSlice(TRAIN_SIZE + VAL_SIZE, TOTAL_SIZE, p)

----------------------------------------------------------------------------
(* dataset_to_pytorch *)

\* astype(np.float32) of a boolean row
AsFloat(row) == AsTuple([c \in 1..Len(row) |-> IF row[c] = TRUE THEN 1 ELSE 0])

ToPytorchItem(d) ==
    [d EXCEPT !.x = AsTuple([j \in 1..Len(d.x) |-> AsFloat(d.x[j])]),
              !.edge_attr = AsTuple([k \in 1..Len(d.edge_attr) |-> AsFloat(d.edge_attr[k])])]

----------------------------------------------------------------------------
(* __getitem__ *)

\* a[lo:hi] for 0 <= lo <= hi
PySlice(a, lo, hi) == SubSeq(a, Min(lo, Len(a)) + 1, Min(hi, Len(a)))

\* (mutation) the projection without the guard on len(item['y'])
GetItemValueUnguarded(d, t) ==
    IF t # NoTarget THEN [d EXCEPT !.y = PySlice(d.y, t, t + 1)] ELSE d

GetItemValue(d, t) ==
    IF t # NoTarget /\ Len(d.y) > 1
    THEN [d EXCEPT !.y = PySlice(d.y, t, t + 1)]
    ELSE d

----------------------------------------------------------------------------
(* Raw records the model feeds to process *)

AtomicNums == {1, 6, 7, 8, 9, 16}

BondTypes == {"SINGLE", "DOUBLE", "TRIPLE", "AROMATIC", "DATIVE"}

Bond(u, v, t) == [begin |-> u, end |-> v, type |-> t]

\* A parsed record: atomic numbers, bonds, conformer positions, the _Name property
Mol(atoms, bonds) ==
    [atoms |-> atoms, bonds |-> bonds,
     pos |-> AsTuple([j \in 1..Len(atoms) |-> <<j, j, j>>]), name |-> "gdb"]

BondsOf(n, types) ==
    {Bond(u, v, t) : <<u, v>> \in {p \in (0..(n-1)) \X (0..(n-1)) : p[1] # p[2]},
                     t \in types}

ChainBonds(n) == AsTuple([k \in 1..(n - 1) |-> Bond(k - 1, k, "SINGLE")])

\* stream holds one record: a carbon skeleton with some bond list (any order,
\* direction, repetition), or one bond of any type, or a chain of any atoms
OneRecord(stream) ==
    \/ \E n \in 0..MaxAtoms : \E k \in 0..MaxBonds :
           \E bs \in [1..k -> BondsOf(n, {"SINGLE", "DOUBLE"})] :
               stream = <<Mol(Repeat(6, n), bs)>>
    \/ \E t \in BondTypes : stream = <<Mol(<<6, 6>>, <<Bond(0, 1, t)>>)>>
    \/ \E n \in 2..MaxAtoms : \E atoms \in [1..n -> AtomicNums] :
           stream = <<Mol(atoms, ChainBonds(n))>>

\* the records longer streams are made of: unparsable, two good ones, one with
\* an atom outside the vocabulary, one without bonds
StreamMols ==
    {Nothing,
     Mol(<<6, 8>>, <<Bond(0, 1, "DOUBLE")>>),
     Mol(<<6, 6, 8>>, <<Bond(0, 1, "SINGLE"), Bond(1, 2, "DOUBLE")>>),
     Mol(<<6, 16>>, <<Bond(0, 1, "SINGLE")>>),
     Mol(<<2>>, <<>>)}

\* stream holds up to MaxStream of the records above
SomeRecords(stream) == \E k \in 0..MaxStream : stream \in [1..k -> StreamMols]

TargetNames == {"mu", "alpha", "C"}

----------------------------------------------------------------------------
(* The dataset: __init__ building from scratch, then queries *)

Idle ==
    /\ probe = 0
    /\ blocks = Nothing
    /\ max_batch_nodes = 0
    /\ max_batch_edges = 0
    /\ items = <<>>
    /\ batch = Nothing
    /\ graph = Nothing

Init ==
    /\ pc = "new"
    /\ \/ /\ OneRecord(suppl)
          /\ skip_indices = {}
          /\ target_index = NoTarget
       \/ /\ SomeRecords(suppl)
          /\ skip_indices \in SUBSET (0..(MaxStream - 1))
          /\ target_index = NoTarget
       \/ /\ SomeRecords(suppl)
          /\ skip_indices = {}
          /\ target_index \in {TargetIndexOf(t) : t \in TargetNames}
    /\ data = <<>>
    /\ err = NoError
    /\ item = Nothing
    /\ Idle

\* self.data = self.process(); on an exception data keeps the data_list collected so far
Process ==
    /\ pc = "new"
    /\ LET r == ProcessFrom(suppl, skip_indices, 0, <<>>)
       IN  /\ data' = r.data
           /\ err' = r.err
           /\ pc' = IF r.err = NoError THEN "processed" ELSE "failed"
    /\ UNCHANGED <<suppl, skip_indices, target_index, item, probe, blocks,
                   max_batch_nodes, max_batch_edges, items, batch, graph>>

DatasetToPytorch ==
    /\ pc = "processed"
    /\ data' = AsTuple([k \in 1..Len(data) |-> ToPytorchItem(data[k])])
    /\ pc' = "ready"
    /\ UNCHANGED <<suppl, skip_indices, err, target_index, item, probe, blocks,
                   max_batch_nodes, max_batch_edges, items, batch, graph>>

\* __getitem__(idx), idx in range (a negative idx counts from the end)
GetItem(idx) ==
    /\ pc = "ready"
    /\ idx \in (-Len(data))..(Len(data) - 1)
    /\ LET k == IF idx < 0 THEN Len(data) + idx + 1 ELSE idx + 1
           d == GetItemValue(data[k], target_index)
       IN  /\ data' = [data EXCEPT ![k] = d]
           /\ item' = d
    /\ UNCHANGED <<pc, suppl, skip_indices, err, target_index, probe, blocks,
                   max_batch_nodes, max_batch_edges, items, batch, graph>>

Next ==
    \/ Process
    \/ DatasetToPytorch
    \/ \E idx \in (-MaxStream)..(MaxStream - 1) : GetItem(idx)

Spec == Init /\ [][Next]_vars

----------------------------------------------------------------------------
(* collate_fn *)

\* (mutation) atom ids shifted as if they were 1-based
OffsetOneBased(edge_index, cum_nodes) ==
    << AsTuple([k \in 1..Len(edge_index[1]) |-> edge_index[1][k] + cum_nodes + 1]),
       AsTuple([k \in 1..Len(edge_index[2]) |-> edge_index[2][k] + cum_nodes + 1]) >>

\* item['edge_index'] + cum_nodes
Offset(edge_index, cum_nodes) ==
    << AsTuple([k \in 1..Len(edge_index[1]) |-> edge_index[1][k] + cum_nodes]),
       AsTuple([k \in 1..Len(edge_index[2]) |-> edge_index[2][k] + cum_nodes]) >>

\* the lists before the loop
CollateStart ==
    [pos |-> <<>>, x |-> <<>>, y |-> <<>>, batch_idx |-> <<>>,
     edge_index_batch |-> <<>>, edge_attr_batch |-> <<>>, ptr |-> <<0>>]

\* the loop over enumerate(batch) from ordinal i on
RECURSIVE CollateLoop(_, _, _, _)
CollateLoop(list, i, cum_nodes, acc) ==
    IF i >= Len(list) THEN acc
    ELSE LET d == list[i + 1]
             num_nodes == Len(d.x)
         IN  CollateLoop(list, i + 1, cum_nodes + num_nodes,
                 [pos |-> Append(acc.pos, d.pos),
                  x |-> Append(acc.x, d.x),
                  y |-> Append(acc.y, d.y),
                  batch_idx |-> acc.batch_idx \o Repeat(i, num_nodes),
                  edge_index_batch |->
                      Append(acc.edge_index_batch, Offset(d.edge_index, cum_nodes)),
                  edge_attr_batch |-> Append(acc.edge_attr_batch, d.edge_attr),
                  ptr |-> Append(acc.ptr, cum_nodes + num_nodes)])

\* collate_fn(list): np.concatenate and np.stack refuse an empty list
collate_fn(list) ==
    LET acc == CollateLoop(list, 0, 0, CollateStart)
    IN  IF list = <<>>
        THEN [ok |-> FALSE, kind |-> "ValueError"]
        ELSE [ok |-> TRUE,
              batch |-> [pos |-> Flatten(acc.pos),
                         x |-> Flatten(acc.x),
                         y |-> acc.y,
                         batch |-> acc.batch_idx,
                         ptr |-> acc.ptr,
                         edge_index |->
                             << Flatten(AsTuple([k \in 1..Len(list) |-> acc.edge_index_batch[k][1]])),
                                Flatten(AsTuple([k \in 1..Len(list) |-> acc.edge_index_batch[k][2]])) >>,
                         edge_attr |-> Flatten(acc.edge_attr_batch)]]

----------------------------------------------------------------------------
(* QM9GraphTransform / _qm9_transform *)

\* int(q) for the rational q = num / den, den > 0: truncation toward zero
PyInt(num, den) == IF num >= 0 THEN num \div den ELSE -((-num) \div den)

\* int(0.8 * max_batch - n + 1), with 0.8 = 4/5
PadCount(max_batch, n) == PyInt(4 * max_batch - 5 * n + 5, 5)

\* jnp.pad(a, ((0, n), ...), constant_values=v) along the padded axis, n >= 0
Pad(a, n, v) == a \o Repeat(v, n)

\* (mutation) the padding nodes given the last real graph's ordinal
PadGraphIndexSameGraph(graph_index, n) ==
    graph_index \o Repeat(graph_index[Len(graph_index)], n)

\* jnp.append(graph_index, jnp.array(n_node_pad * [graph_index[-1] + 1]))
PadGraphIndex(graph_index, n) ==
    graph_index \o Repeat(graph_index[Len(graph_index)] + 1, n)

\* jnp.append(jnp.ones_like(data["y"]), 0): append flattens
PaddingMask(y) == Flatten(AsTuple([k \in 1..Len(y) |-> Repeat(1, Len(y[k]))])) \o <<0>>

\* edge_index.max() + 1
EdgeSentinel(b) == SeqMax(b.edge_index[1] \o b.edge_index[2]) + 1

\* _qm9_transform(b) under the capacities (mbn, mbe); jnp.pad refuses a negative width
qm9_transform(mbn, mbe, b) ==
    LET n_nodes == Len(b.x)
        n_edges == Len(b.edge_index[1])
        n_node_pad == PadCount(mbn, n_nodes)
        n_edge_pad == PadCount(mbe, n_edges)
    IN  IF n_node_pad < 0 \/ n_edge_pad < 0
        THEN [ok |-> FALSE, kind |-> "ValueError"]
        ELSE [ok |-> TRUE,
              graph |-> [pos |-> Pad(b.pos, n_node_pad, <<0, 0, 0>>),
                         x |-> Pad(b.x, n_node_pad, <<0, 0, 0, 0, 0>>),
                         edge_index |->
                             << Pad(b.edge_index[1], n_edge_pad, EdgeSentinel(b)),
                                Pad(b.edge_index[2], n_edge_pad, EdgeSentinel(b)) >>,
                         edge_attr |-> Pad(b.edge_attr, n_edge_pad, <<0, 0, 0, 0>>),
                         graph_index |-> PadGraphIndex(b.batch, n_node_pad),
                         y |-> Flatten(b.y) \o <<0>>,
                         padding_mask |-> PaddingMask(b.y)]]

----------------------------------------------------------------------------
(* Properties of process *)

\* positions of the stream that process accepts, and the k-th smallest of them
Accepted == {i \in 0..(Len(suppl) - 1) : suppl[i + 1] # Nothing /\ i \notin skip_indices}

KthAccepted(k) == CHOOSE i \in Accepted : Cardinality({j \in Accepted : j < i}) = k - 1

\* the loop of process got as far as record i
Reached(i) == pc # "new" /\ (err = NoError \/ i <= err.at)

\* the atom-type vocabulary {H, C, N, O, F}, by atomic number
Vocabulary == {1, 6, 7, 8, 9}

InVocabulary(mol) == \A j \in 1..Len(mol.atoms) : mol.atoms[j] \in Vocabulary

\* <<source, destination, feature row>> of column k of a stored item
Triple(d, k) == <<d.edge_index[1][k], d.edge_index[2][k], d.edge_attr[k]>>

BoolRow(row) == [c \in 1..Len(row) |-> row[c] = 1]

\* how many directed entries <<u, v, row>> the bonds of a record call for
Wanted(bonds, t) ==
    Cardinality({k \in 1..Len(bonds) :
                    t = <<bonds[k].begin, bonds[k].end, BoolRow(BondTypeRow(bonds[k].type))>>})
    + Cardinality({k \in 1..Len(bonds) :
                    t = <<bonds[k].end, bonds[k].begin, BoolRow(BondTypeRow(bonds[k].type))>>})

Stored(d, t) == Cardinality({k \in 1..Len(d.edge_attr) : Triple(d, k) = t})

EdgeLaw(d, bonds) ==
    LET E == 2 * Len(bonds)
        src == d.edge_index[1]
        dst == d.edge_index[2]
    IN  /\ Len(src) = E /\ Len(dst) = E /\ Len(d.edge_attr) = E
        /\ \A k \in 1..(E - 1) :
               \/ dst[k] < dst[k + 1]
               \/ dst[k] = dst[k + 1] /\ src[k] <= src[k + 1]
        /\ \A k \in 1..E : Stored(d, Triple(d, k)) = Wanted(bonds, Triple(d, k))
        /\ \A k \in 1..Len(bonds) :
               LET row == BoolRow(BondTypeRow(bonds[k].type))
               IN  /\ Stored(d, <<bonds[k].begin, bonds[k].end, row>>)
                        = Wanted(bonds, <<bonds[k].begin, bonds[k].end, row>>)
                   /\ Stored(d, <<bonds[k].end, bonds[k].begin, row>>)
                        = Wanted(bonds, <<bonds[k].end, bonds[k].begin, row>>)

\* C6: every accepted record that process reaches and whose atoms are in the
\* vocabulary, whatever its bond list, is stored with both directions of each
\* bond, columns sorted by (destination, source), feature rows aligned.
C6_EdgesOfEveryAcceptedMolecule ==
    pc \in {"processed", "failed"} =>
        \A i \in Accepted :
            (Reached(i) /\ InVocabulary(suppl[i + 1])) =>
                \E k \in 1..Len(data) :
                    data[k].idx = i /\ EdgeLaw(data[k], suppl[i + 1].bonds)

\* The same for records with at least one bond (what the code does achieve)
EdgesOfBondedMolecules ==
    pc \in {"processed", "failed"} =>
        \A i \in Accepted :
            (Reached(i) /\ InVocabulary(suppl[i + 1]) /\ suppl[i + 1].bonds # <<>>) =>
                \E k \in 1..Len(data) :
                    data[k].idx = i /\ EdgeLaw(data[k], suppl[i + 1].bonds)

\* C7: the corpus process returns holds exactly the parsable, non-excluded
\* records in stream order; entry k carries the original position of the k-th
\* accepted record as idx and the normalized target row of that position as y.
C7_CorpusIsAcceptedRecordsInOrder ==
    pc = "processed" =>
        /\ Len(data) = Cardinality(Accepted)
        /\ \A k \in 1..Len(data) :
               /\ data[k].idx = KthAccepted(k)
               /\ data[k].y = targets(KthAccepted(k))
               /\ data[k].pos = suppl[KthAccepted(k) + 1].pos
        /\ \A k \in 1..(Len(data) - 1) : data[k].idx < data[k + 1].idx

C7_Witness ==
    /\ pc = "processed"
    /\ Len(suppl) = 3
    /\ suppl[1] = Nothing
    /\ suppl[2] # Nothing /\ 1 \in skip_indices
    /\ Len(data) = 1 /\ data[1].idx = 2

OneHotAt(row, c) == \A k \in 1..Len(row) : row[k] = (k = c + 1)

\* the map {H:0, C:1, N:2, O:3, F:4}
SpecAtomIndex == (1 :> 0) @@ (6 :> 1) @@ (7 :> 2) @@ (8 :> 3) @@ (9 :> 4)

OneHotLaw ==
    pc \in {"processed", "failed"} =>
        \A k \in 1..Len(data) :
            LET mol == suppl[data[k].idx + 1]
            IN  /\ Len(data[k].x) = Len(mol.atoms)
                /\ \A j \in 1..Len(mol.atoms) :
                       /\ Len(data[k].x[j]) = 5
                       /\ mol.atoms[j] \in Vocabulary
                       /\ OneHotAt(data[k].x[j], SpecAtomIndex[mol.atoms[j]])

FailsOutsideVocabulary(kind) ==
    \A i \in Accepted :
        (Reached(i) /\ ~InVocabulary(suppl[i + 1])) =>
            /\ pc = "failed"
            /\ err = [kind |-> kind, at |-> i]
            /\ \A k \in 1..Len(data) : data[k].idx # i

\* C8 as stated: an accepted record with an atom outside the vocabulary ends the
\* build with a ValueError; atoms inside it get a one-hot row at the mapped index.
C8_FailsWithValueError == FailsOutsideVocabulary("ValueError") /\ OneHotLaw

\* C8 amended: the error that ends the build at such a record is a KeyError.
C8_FailsWithKeyError == FailsOutsideVocabulary("KeyError") /\ OneHotLaw

C8_Witness ==
    /\ pc = "failed"
    /\ err.kind = "KeyError"
    /\ Len(data) >= 1
    /\ \E i \in Accepted : i < err.at

----------------------------------------------------------------------------
(* Properties of __getitem__ *)

\* the item process and dataset_to_pytorch stored for stream position i
StoredOriginally(i) == ToPytorchItem(ProcessMol(suppl[i + 1], i).item)

\* C10: with a target selected, every stored item is the original one with y
\* either untouched or projected once to component target_index; what
\* __getitem__ returned has y = <<component target_index of its original row>>.
C10_ProjectionAppliedOnce ==
    (pc = "ready" /\ target_index # NoTarget) =>
        /\ \A k \in 1..Len(data) :
               LET orig == StoredOriginally(data[k].idx)
               IN  \/ data[k] = orig
                   \/ data[k] = [orig EXCEPT !.y = <<targets(orig.idx)[target_index + 1]>>]
        /\ item # Nothing =>
               /\ item.y = <<targets(item.idx)[target_index + 1]>>
               /\ \E k \in 1..Len(data) : data[k] = item

C10_Witness ==
    /\ pc = "ready"
    /\ target_index = 18
    /\ Len(data) = 2
    /\ item # Nothing /\ item = data[1]
    /\ Len(data[2].y) = 19

----------------------------------------------------------------------------
(* Batches: a ready dataset, a loader that collates, the padding transform *)

\* the records of the dataset batches are drawn from: 2 atoms; a 3-atom chain;
\* 3 atoms of which the last is bonded to nothing
BatchStream ==
    << Mol(<<6, 8>>, <<Bond(0, 1, "DOUBLE")>>),
       Mol(<<6, 6, 8>>, <<Bond(0, 1, "SINGLE"), Bond(1, 2, "DOUBLE")>>),
       Mol(<<8, 1, 1>>, <<Bond(1, 0, "SINGLE")>>) >>

InitBatch ==
    /\ pc = "ready"
    /\ suppl = BatchStream
    /\ skip_indices = {}
    /\ data = AsTuple([k \in 1..Len(BatchStream) |->
                  ToPytorchItem(ProcessFrom(BatchStream, {}, 0, <<>>).data[k])])
    /\ err = NoError
    /\ target_index \in {TargetIndexOf(t) : t \in {"None", "alpha"}}
    /\ item = Nothing
    /\ probe = 0
    /\ blocks = Nothing
    /\ max_batch_nodes \in 1..MaxCap
    /\ max_batch_edges \in 1..MaxCap
    /\ items = <<>>
    /\ batch = Nothing
    /\ graph = Nothing

\* the loader: dataset[i] for each index of the batch, in order
RECURSIVE Fetch(_, _, _)
Fetch(d, idxs, t) ==
    IF idxs = <<>> THEN [data |-> d, items |-> <<>>]
    ELSE LET got == GetItemValue(d[Head(idxs) + 1], t)
             rest == Fetch([d EXCEPT ![Head(idxs) + 1] = got], Tail(idxs), t)
         IN  [data |-> rest.data, items |-> <<got>> \o rest.items]

\* one batch: the items are fetched, then collate_fn is called on them; the
\* previous batch and its padded graph are dropped
LoadBatch(idxs) ==
    /\ pc \in {"ready", "padded", "failed"}
    /\ LET f == Fetch(data, idxs, target_index)
           r == collate_fn(f.items)
       IN  /\ data' = f.data
           /\ items' = f.items
           /\ item' = IF idxs = <<>> THEN item ELSE f.items[Len(f.items)]
           /\ batch' = IF r.ok THEN r.batch ELSE Nothing
           /\ err' = IF r.ok THEN NoError ELSE [kind |-> r.kind, at |-> -1]
           /\ pc' = IF r.ok THEN "collated" ELSE "failed"
    /\ graph' = Nothing
    /\ UNCHANGED <<suppl, skip_indices, target_index, probe, blocks,
                   max_batch_nodes, max_batch_edges>>

\* _qm9_transform(batch)
Transform ==
    /\ pc = "collated"
    /\ LET r == qm9_transform(max_batch_nodes, max_batch_edges, batch)
       IN  /\ graph' = IF r.ok THEN r.graph ELSE Nothing
           /\ err' = IF r.ok THEN NoError ELSE [kind |-> r.kind, at |-> -1]
           /\ pc' = IF r.ok THEN "padded" ELSE "failed"
    /\ UNCHANGED <<suppl, skip_indices, data, target_index, item, probe, blocks,
                   max_batch_nodes, max_batch_edges, items, batch>>

NextBatch ==
    \/ \E idxs \in SeqsUpTo(0..(Len(BatchStream) - 1), MaxBatch) : LoadBatch(idxs)
    \/ Transform

SpecBatch == InitBatch /\ [][NextBatch]_vars

----------------------------------------------------------------------------
(* Properties of collate_fn *)

\* atom count of the k-th molecule of the list, and of the first k together
NumAtoms(k) == Len(items[k].x)

RECURSIVE AtomsBefore(_)
AtomsBefore(k) == IF k = 0 THEN 0 ELSE AtomsBefore(k - 1) + NumAtoms(k)

EdgeIdsWithinMolecules ==
    \A k \in 1..Len(items) : \A r \in 1..2 : \A c \in 1..Len(items[k].edge_index[r]) :
        items[k].edge_index[r][c] \in 0..(NumAtoms(k) - 1)

\* C1: for B molecules whose edge ids lie inside their own atom range, ptr is
\* [0, n0, n0+n1, ..., sum(n)] with B+1 entries and every edge id of the batch
\* lies in [0, sum(n)).
C1_PtrAndEdgeRange ==
    (batch # Nothing /\ EdgeIdsWithinMolecules) =>
        /\ Len(batch.ptr) = Len(items) + 1
        /\ \A k \in 1..(Len(items) + 1) : batch.ptr[k] = AtomsBefore(k - 1)
        /\ \A r \in 1..2 : \A c \in 1..Len(batch.edge_index[r]) :
               batch.edge_index[r][c] \in 0..(AtomsBefore(Len(items)) - 1)

C1_Witness ==
    /\ batch # Nothing
    /\ Len(items) = 2
    /\ NumAtoms(1) = 3 /\ NumAtoms(2) = 2
    /\ batch.ptr = <<0, 3, 5>>
    /\ \E c \in 1..Len(batch.edge_index[1]) : batch.edge_index[1][c] = 4

----------------------------------------------------------------------------
(* Properties of the padding transform *)

RealNodes == Len(batch.x)
RealEdges == Len(batch.edge_index[1])

\* the real size is above 0.8 * capacity + 1
Exceeds(n, max_batch) == 5 * n > 4 * max_batch + 5

\* C2: a batch whose real node or edge count exceeds the reserved size is never
\* given a padded graph; the transform raises.
C2_ExceedingBatchRaises ==
    (pc \in {"padded", "failed"} /\ batch # Nothing
        /\ (Exceeds(RealNodes, max_batch_nodes) \/ Exceeds(RealEdges, max_batch_edges))) =>
        pc = "failed" /\ graph = Nothing

\* the batch the loader would make of idxs, and its padded graph
BatchOf(idxs) == collate_fn(Fetch(data, idxs, target_index).items).batch

\* C3: under fixed capacities the padded graph of the current batch has the
\* node-array and edge-array lengths of the padded graph of any other batch.
C3_SameShapeForEveryBatch ==
    pc = "padded" =>
        \A idxs \in SeqsUpTo(0..(Len(BatchStream) - 1), MaxBatch) \ {<<>>} :
            LET other == qm9_transform(max_batch_nodes, max_batch_edges, BatchOf(idxs))
            IN  other.ok =>
                    /\ Len(graph.pos) = Len(other.graph.pos)
                    /\ Len(graph.x) = Len(other.graph.x)
                    /\ Len(graph.graph_index) = Len(other.graph.graph_index)
                    /\ Len(graph.edge_index[1]) = Len(other.graph.edge_index[1])
                    /\ Len(graph.edge_index[2]) = Len(other.graph.edge_index[2])
                    /\ Len(graph.edge_attr) = Len(other.graph.edge_attr)

\* C4: every padding entry of edge_index is the largest real atom id + 1, above
\* every real atom id of the batch (stated for the batches within the reserved
\* size, where the padding counts are the intended ones).
C4_PaddingEdgesPastRealAtoms ==
    (pc = "padded" /\ ~Exceeds(RealNodes, max_batch_nodes)
                   /\ ~Exceeds(RealEdges, max_batch_edges)) =>
        \A r \in 1..2 : \A c \in (RealEdges + 1)..Len(graph.edge_index[r]) :
            /\ graph.edge_index[r][c] = (RealNodes - 1) + 1
            /\ \A atom \in 0..(RealNodes - 1) : graph.edge_index[r][c] > atom

\* C9: graph_index starts with the batch's graph_index, every padding node
\* belongs to graph B, and padding_mask is 1 on every real target and 0 on the
\* single last slot, that of the appended zero target.
C9_GhostGraphAndMask ==
    pc = "padded" =>
        LET B == Len(items)
            n == Len(graph.padding_mask)
        IN  /\ Len(graph.graph_index) = Len(graph.x)
            /\ SubSeq(graph.graph_index, 1, RealNodes) = batch.batch
            /\ \A k \in (RealNodes + 1)..Len(graph.graph_index) : graph.graph_index[k] = B
            /\ n = SeqSum([k \in 1..B |-> Len(items[k].y)]) + 1
            /\ Len(graph.y) = n
            /\ \A k \in 1..(n - 1) : graph.padding_mask[k] = 1
            /\ graph.padding_mask[n] = 0
            /\ graph.y[n] = 0
            /\ SubSeq(graph.y, 1, n - 1) = Flatten(batch.y)

C9_Witness ==
    /\ pc = "padded"
    /\ Len(items) = 2
    /\ Len(graph.graph_index) >= RealNodes + 2
    /\ Len(graph.padding_mask) = 3

----------------------------------------------------------------------------
(* The split of a loaded corpus *)

SplitNames == {"train", "val", "test", "all"}

InitSplit ==
    /\ pc = "loaded"
    /\ probe \in 0..(TOTAL_SIZE - 1)
    /\ blocks = Nothing
    /\ suppl = <<>>
    /\ skip_indices = {}
    /\ data = <<>>
    /\ err = NoError
    /\ target_index = NoTarget
    /\ item = Nothing
    /\ max_batch_nodes = 0
    /\ max_batch_edges = 0
    /\ items = <<>>
    /\ batch = Nothing
    /\ graph = Nothing

\* apply_split() with self.split = split: the three blocks, then the choice
ApplySplit(split) ==
    /\ pc = "loaded"
    /\ blocks' = [train |-> TrainIdx(probe), val |-> ValIdx(probe),
                  test |-> TestIdx(probe),
                  chosen |-> IF split \in {"train", "val", "test"} THEN split ELSE "None"]
    /\ err' = IF split \in {"train", "val", "test"}
              THEN NoError ELSE [kind |-> "ValueError", at |-> -1]
    /\ pc' = IF split \in {"train", "val", "test"} THEN "split" ELSE "failed"
    /\ UNCHANGED <<suppl, skip_indices, data, target_index, item, probe,
                   max_batch_nodes, max_batch_edges, items, batch, graph>>

NextSplit == \E split \in SplitNames : ApplySplit(split)

SpecSplit == InitSplit /\ [][NextSplit]_vars

\* C5: the three blocks have sizes TRAIN_SIZE, VAL_SIZE and TEST_SIZE, and every
\* index of [0, TOTAL_SIZE) is in exactly one of them (disjoint, union whole).
C5_BlocksPartitionTheIndices ==
    blocks # Nothing =>
        /\ blocks.train.size = TRAIN_SIZE
        /\ blocks.val.size = VAL_SIZE
        /\ blocks.test.size = TEST_SIZE
        /\ blocks.train.size + blocks.val.size + blocks.test.size = TOTAL_SIZE
        /\ Cardinality({b \in {"train", "val", "test"} : blocks[b].has}) = 1

C5_Witness ==
    /\ pc = "split"
    /\ probe = TRAIN_SIZE + VAL_SIZE
    /\ blocks.test.has /\ ~blocks.val.has /\ ~blocks.train.has

====
